---- MODULE Spec2Model ----
(***************************************************************************)
(* Model of calculations.py of the solar datacenter LCOE calculator:       *)
(* calculate_pro_forma (the pro forma table builder) and its discounting   *)
(* helper calculate_npv.                                                   *)
(*                                                                         *)
(* Numbers.  The program computes in Python floats.  The model computes    *)
(* in exact rationals <<numerator, denominator>> (denominator > 0, lowest  *)
(* terms); a blank table cell (pandas NaN) is the empty tuple <<>> and     *)
(* propagates through arithmetic as NaN does.  Python's float division     *)
(* raises ZeroDivisionError on a zero divisor; the model records the       *)
(* exception in `raised` and stops.                                        *)
(***************************************************************************)
EXTENDS Integers, Sequences, FiniteSets, TLC

VARIABLES args, pc, year, index, columns, proforma, npv, locals, result, raised

vars == <<args, pc, year, index, columns, proforma, npv, locals, result, raised>>

-----------------------------------------------------------------------------
(* Exact rational arithmetic standing for Python float arithmetic.         *)

Abs(n) == IF n < 0 THEN -n ELSE n

RECURSIVE GCD(_, _)
GCD(a, b) == IF b = 0 THEN a ELSE GCD(b, a % b)

\* n/d in lowest terms with a positive denominator (d # 0).
Norm(n, d) ==
    LET g == GCD(Abs(n), Abs(d))
        s == IF d < 0 THEN -1 ELSE 1
    IN  <<s * (n \div g), s * (d \div g)>>

R(n) == <<n, 1>>
Zero == R(0)
One == R(1)

\* p + q, over the least common denominator.
Add(p, q) ==
    LET g == GCD(p[2], q[2])
    IN  Norm(p[1] * (q[2] \div g) + q[1] * (p[2] \div g), (p[2] \div g) * q[2])

Neg(p) == <<-p[1], p[2]>>
Sub(p, q) == Add(p, Neg(q))

\* p * q, cancelling across before multiplying.
Mul(p, q) ==
    LET g1 == GCD(Abs(p[1]), q[2])
        g2 == GCD(Abs(q[1]), p[2])
    IN  Norm((p[1] \div g1) * (q[1] \div g2), (p[2] \div g2) * (q[2] \div g1))

\* p / q for q # 0.
Div(p, q) == Mul(p, Norm(q[2], q[1]))

\* p ** k for an integer k (by repeated squaring; p # 0 when k < 0).
RECURSIVE Pow(_, _)
Pow(p, k) ==
    IF k = 0 THEN One
    ELSE IF k < 0 THEN Div(One, Pow(p, -k))
         ELSE LET h == Pow(p, k \div 2)
                  sq == Mul(h, h)
              IN  IF k % 2 = 1 THEN Mul(sq, p) ELSE sq

\* x / 100, the percent-to-fraction conversion the code writes as `x / 100`.
Pct(x) == Div(x, R(100))

-----------------------------------------------------------------------------
(* Table cells: a rational or NaN.                                         *)

NaN == <<>>
IsNaN(c) == c = NaN

CAdd(a, b) == IF IsNaN(a) \/ IsNaN(b) THEN NaN ELSE Add(a, b)
CSub(a, b) == IF IsNaN(a) \/ IsNaN(b) THEN NaN ELSE Sub(a, b)
CMul(a, b) == IF IsNaN(a) \/ IsNaN(b) THEN NaN ELSE Mul(a, b)
CDiv(a, b) == IF IsNaN(a) \/ IsNaN(b) THEN NaN ELSE Div(a, b)
CNeg(a) == IF IsNaN(a) THEN NaN ELSE Neg(a)

\* Series.fillna(0) on one cell.
fillna0(c) == IF IsNaN(c) THEN Zero ELSE c

-----------------------------------------------------------------------------
(* Program constants.                                                      *)

\* years = list(range(-1, 21)): the first and the last label of the index.
FirstYear == -1
LastYear == 20

_POWERFLOW_COLUMNS_TO_ASSIGN ==
    {"Solar Output - Net (MWh)", "BESS Net Output (MWh)", "Generator Output (MWh)",
     "Generator Fuel Input (MMBtu)", "Load Served (MWh)"}

_EXCLUDE_FROM_NPV ==
    {"Fuel Unit Cost", "Solar Fixed O&M Rate", "Battery Fixed O&M Rate",
     "Generator Fixed O&M Rate", "Generator Variable O&M Rate", "BOS Fixed O&M Rate",
     "Soft O&M Rate", "LCOE", "Debt Outstanding, Yr Start", "Depreciation Schedule"}

_CALCULATE_TOTALS ==
    {"Solar Output - Net (MWh)", "BESS Net Output (MWh)", "Generator Output (MWh)",
     "Generator Fuel Input (MMBtu)", "Load Served (MWh)"}

\* Every column calculate_pro_forma ever creates.
AllColumns ==
    {"Operating Year"} \cup _POWERFLOW_COLUMNS_TO_ASSIGN \cup
    {"Debt Outstanding, Yr Start", "Federal ITC",
     "Capital Expenditure", "Debt Contribution", "Equity Capex",
     "Fuel Unit Cost", "Solar Fixed O&M Rate", "Battery Fixed O&M Rate",
     "Generator Fixed O&M Rate", "Generator Variable O&M Rate", "BOS Fixed O&M Rate",
     "Soft O&M Rate", "Fixed O&M Cost", "Fuel Cost", "Variable O&M Cost",
     "Total Operating Costs", "LCOE", "Revenue", "EBITDA",
     "Interest Expense", "Debt Service", "Principal Payment",
     "Depreciation Schedule", "Depreciation (MACRS)", "Taxable Income",
     "Interest Expense (Tax)", "Tax Benefit (Liability)",
     "After-Tax Net Equity Cash Flow"}

-----------------------------------------------------------------------------
(* Bounds of the model and the inputs drawn within them.                   *)

\* construction_time_years ranges over 1..MaxConstructionYears.
MaxConstructionYears == 3
\* debt_term_years ranges over the short terms 1..MaxShortTerm and over the
\* terms LastYear..LastYear+MaxTermBeyond at and past the table's horizon.
MaxShortTerm == 2
MaxTermBeyond == 1

ConstructionTimes == 1..MaxConstructionYears
ShortTerms == 1..MaxShortTerm
DebtTerms == ShortTerms \cup (LastYear..(LastYear + MaxTermBeyond))

\* Percentages, as the caller passes them.
CostOfDebtPcts == {0, 50, 100}
LeveragePcts == {0, 40, 100}
CostOfEquityPcts == {0, 100}
EscalatorPcts == {0, 100}

\* CAPEX figures in $M: <<solar, bess, generator, system integration, soft>>.
CapexFigures == {<<0, 0, 0, 0, 0>>, <<2, 2, 3, 1, 2>>}

\* Operating years missing from the simulation summary.
SimMissing == {{}, {1}}

\* One row of the powerflow simulation summary for operating year y.
SimRow(y) ==
    [c \in {"Operating Year"} \cup _POWERFLOW_COLUMNS_TO_ASSIGN |->
        CASE c = "Operating Year" -> R(y)
          [] c = "Solar Output - Net (MWh)" -> R(30000)
          [] c = "BESS Net Output (MWh)" -> R(10000)
          [] c = "Generator Output (MWh)" -> R(40000 * (1 + (y % 2)))
          [] c = "Generator Fuel Input (MMBtu)" -> R(200000 * (1 + (y % 2)))
          [] c = "Load Served (MWh)" -> R(80000)]

SimulationData(missing) == [y \in (1..LastYear) \ missing |-> SimRow(y)]

\* The argument records of calculate_pro_forma.
Inputs ==
    { [ simulation_data |-> SimulationData(m),
        datacenter_load_mw |-> R(25),
        solar_pv_capacity_mw |-> R(50),
        bess_max_power_mw |-> R(50),
        generator_capacity_mw |-> R(25),
        solar_capex |-> R(cx[1]),
        bess_capex |-> R(cx[2]),
        generator_capex |-> R(cx[3]),
        system_integration_capex |-> R(cx[4]),
        soft_costs_capex |-> R(cx[5]),
        generator_om_fixed_dollar_per_kw |-> R(10),
        generator_om_variable_dollar_per_kwh |-> Norm(1, 40),
        fuel_price_dollar_per_mmbtu |-> R(5),
        fuel_escalator_pct |-> R(fe),
        solar_om_fixed_dollar_per_kw |-> R(10),
        bess_om_fixed_dollar_per_kw |-> Norm(5, 2),
        bos_om_fixed_dollar_per_kw_load |-> R(5),
        soft_om_pct |-> Norm(25, 2),
        om_escalator_pct |-> R(oe),
        lcoe_dollar_per_mwh |-> R(100),
        depreciation_schedule |-> <<R(50), R(25), R(25)>>,
        investment_tax_credit_pct |-> R(80),
        cost_of_debt_pct |-> R(cd),
        leverage_pct |-> R(lv),
        debt_term_years |-> dt,
        cost_of_equity_pct |-> R(ce),
        combined_tax_rate_pct |-> R(50),
        construction_time_years |-> ct ] :
      m \in SimMissing, cx \in CapexFigures, fe \in EscalatorPcts,
      oe \in EscalatorPcts, cd \in CostOfDebtPcts, lv \in LeveragePcts,
      dt \in DebtTerms, ce \in CostOfEquityPcts, ct \in ConstructionTimes }

\* The model checker computes in 32-bit integers, so the inputs explored are
\* those whose exact table fits: a 50% cost of debt goes with terms of at most
\* two years, and a term that reaches the table's last year goes with no
\* escalation and a zero discount rate.
HalfRateTerms == {1, 2}
ValidInputs ==
    { a \in Inputs :
        /\ a.cost_of_debt_pct = R(50) => a.debt_term_years \in HalfRateTerms
        /\ a.debt_term_years >= LastYear =>
              /\ a.cost_of_equity_pct = Zero
              /\ a.fuel_escalator_pct = Zero
              /\ a.om_escalator_pct = Zero }

-----------------------------------------------------------------------------
(* The table: proforma[label][column] for the dated rows in `index`, and    *)
(* the row labelled 'NPV' in `npv`.                                         *)

BlankRow == [c \in AllColumns |-> NaN]

Labels(idx) == {idx[i] : i \in 1..Len(idx)}

NoLocals ==
    [ total_hard_capex |-> NaN, total_capex |-> NaN, total_debt |-> NaN,
      interest_rate |-> NaN, fixed_debt_payment |-> NaN,
      tax_credit_amount |-> NaN, amount_that_is_depreciable |-> NaN,
      capex_per_year |-> NaN ]

NoTable == [returned |-> FALSE, index |-> <<>>, rows |-> <<>>, npv |-> BlankRow]

Init ==
    /\ args \in ValidInputs
    /\ pc = "scaffold"
    /\ year = 0
    /\ index = <<>>
    /\ columns = {}
    /\ proforma = <<>>
    /\ npv = [present |-> FALSE, row |-> BlankRow]
    /\ locals = NoLocals
    /\ result = NoTable
    /\ raised = "none"

\* raise: the call ends with the exception and returns no table.
Raise(exc) ==
    /\ raised' = exc
    /\ pc' = "done"
    /\ UNCHANGED <<args, year, index, columns, proforma, npv, locals, result>>

\* Lines 177-187: the years index and the powerflow columns of the
\* operating years the simulation summary has.
Scaffold ==
    /\ pc = "scaffold"
    /\ LET years == [i \in 1..(LastYear - FirstYear + 1) |-> FirstYear + i - 1]
           sim == args.simulation_data
       IN  /\ index' = years
           /\ proforma' =
                 [y \in Labels(years) |->
                    IF y \in DOMAIN sim
                    THEN [c \in AllColumns |->
                            IF c \in {"Operating Year"} \cup _POWERFLOW_COLUMNS_TO_ASSIGN
                            THEN sim[y][c] ELSE NaN]
                    ELSE BlankRow]
           /\ columns' = {"Operating Year"} \cup _POWERFLOW_COLUMNS_TO_ASSIGN
    /\ pc' = "finance"
    /\ UNCHANGED <<args, year, npv, locals, result, raised>>

\* Lines 189-197: CAPEX totals, debt and the fixed debt service payment.
\* The division by (1 + r)^n - 1 raises ZeroDivisionError when that is zero.
\* A payment formula that leaves out the factor (1 + r)^n.
fixed_debt_payment_NoGrowth(total_debt, interest_rate, debt_term_years) ==
    Div(Mul(total_debt, interest_rate),
        Sub(Pow(Add(One, interest_rate), debt_term_years), One))

fixed_debt_payment(total_debt, interest_rate, debt_term_years) ==
    Div(Mul(Mul(total_debt, interest_rate), Pow(Add(One, interest_rate), debt_term_years)),
        Sub(Pow(Add(One, interest_rate), debt_term_years), One))

Finance ==
    /\ pc = "finance"
    /\ LET total_hard_capex == Add(Add(Add(args.solar_capex, args.bess_capex),
                                       args.generator_capex), args.system_integration_capex)
           total_capex == Add(total_hard_capex, args.soft_costs_capex)
           total_debt == Mul(total_capex, Pct(args.leverage_pct))
           interest_rate == Pct(args.cost_of_debt_pct)
       IN  IF Sub(Pow(Add(One, interest_rate), args.debt_term_years), One) = Zero
           THEN Raise("ZeroDivisionError")
           ELSE /\ locals' = [locals EXCEPT
                                !.total_hard_capex = total_hard_capex,
                                !.total_capex = total_capex,
                                !.total_debt = total_debt,
                                !.interest_rate = interest_rate,
                                !.fixed_debt_payment =
                                    fixed_debt_payment(total_debt, interest_rate,
                                                       args.debt_term_years)]
                /\ pc' = "tax_credit"
                /\ UNCHANGED <<args, year, index, columns, proforma, npv, result, raised>>

\* Lines 199-208: the investment tax credit, the depreciable basis and the
\* year 1 opening debt and credit.  The division by total_hard_capex raises
\* ZeroDivisionError when the hard CAPEX is zero.
\* A credit taken on the hard CAPEX alone, leaving the soft costs out.
tax_credit_amount_HardOnly(total_capex, renewable_capex, total_hard_capex, itc_pct) ==
    Mul(Mul(total_hard_capex, Div(renewable_capex, total_hard_capex)), Pct(itc_pct))

tax_credit_amount(total_capex, renewable_capex, total_hard_capex, itc_pct) ==
    Mul(Mul(total_capex, Div(renewable_capex, total_hard_capex)), Pct(itc_pct))

amount_that_is_depreciable(total_capex, credit) == Sub(total_capex, Div(credit, R(2)))

TaxCredit ==
    /\ pc = "tax_credit"
    /\ IF locals.total_hard_capex = Zero
       THEN Raise("ZeroDivisionError")
       ELSE LET credit == tax_credit_amount(locals.total_capex,
                                            Add(args.solar_capex, args.bess_capex),
                                            locals.total_hard_capex,
                                            args.investment_tax_credit_pct)
            IN  /\ locals' = [locals EXCEPT
                                !.tax_credit_amount = credit,
                                !.amount_that_is_depreciable =
                                    amount_that_is_depreciable(locals.total_capex, credit)]
                /\ proforma' = [proforma EXCEPT
                                  ![1]["Debt Outstanding, Yr Start"] = locals.total_debt,
                                  ![1]["Federal ITC"] = credit]
                /\ columns' = columns \cup {"Debt Outstanding, Yr Start", "Federal ITC"}
                /\ pc' = "construction"
                /\ UNCHANGED <<args, year, index, npv, result, raised>>

\* Lines 210-216: the construction period.  range(-construction_time_years + 1, 1)
\* is a list of row labels; .loc with a list holding a label that is not in the
\* index raises KeyError.
construction_years(construction_time_years) == (1 - construction_time_years)..0

DebtContribution(capex_per_year, leverage_pct) == Mul(capex_per_year, Pct(leverage_pct))

\* An equity share that uses the leverage where 1 - leverage belongs.
EquityCapex_Leverage(capex_per_year, leverage_pct) ==
    Mul(Mul(R(-1), capex_per_year), Pct(leverage_pct))

EquityCapex(capex_per_year, leverage_pct) ==
    Mul(Mul(R(-1), capex_per_year), Sub(One, Pct(leverage_pct)))

Construction ==
    /\ pc = "construction"
    /\ LET cys == construction_years(args.construction_time_years)
           capex_per_year == Div(locals.total_capex, R(args.construction_time_years))
       IN  IF ~(cys \subseteq Labels(index))
           THEN Raise("KeyError")
           ELSE /\ locals' = [locals EXCEPT !.capex_per_year = capex_per_year]
                /\ proforma' =
                     [y \in DOMAIN proforma |->
                        IF y \in cys
                        THEN [proforma[y] EXCEPT
                                !["Capital Expenditure"] = Mul(R(-1), capex_per_year),
                                !["Debt Contribution"] =
                                    DebtContribution(capex_per_year, args.leverage_pct),
                                !["Equity Capex"] =
                                    EquityCapex(capex_per_year, args.leverage_pct)]
                        ELSE proforma[y]]
                /\ columns' = columns \cup
                                {"Capital Expenditure", "Debt Contribution", "Equity Capex"}
                /\ pc' = "rates"
                /\ UNCHANGED <<args, year, index, npv, result, raised>>

\* Lines 218-234: the escalated unit rates of the operating years,
\* -1.0 * base * (1 + escalator/100) ** (year - 1).
operating_years(idx) == {y \in Labels(idx) : y > 0}

escalation(escalator_pct, y) == Pow(Add(One, Pct(escalator_pct)), y - 1)

\* A unit rate that stays at its base value in every operating year.
EscalatedRate_Flat(base, escalator_pct, y) == Mul(R(-1), base)

EscalatedRate(base, escalator_pct, y) ==
    Mul(Mul(R(-1), base), escalation(escalator_pct, y))

OperatingRates ==
    /\ pc = "rates"
    /\ proforma' =
         [y \in DOMAIN proforma |->
            IF y \in operating_years(index)
            THEN [proforma[y] EXCEPT
                    !["Fuel Unit Cost"] =
                        EscalatedRate(args.fuel_price_dollar_per_mmbtu,
                                      args.fuel_escalator_pct, y),
                    !["Solar Fixed O&M Rate"] =
                        EscalatedRate(args.solar_om_fixed_dollar_per_kw,
                                      args.om_escalator_pct, y),
                    !["Battery Fixed O&M Rate"] =
                        EscalatedRate(args.bess_om_fixed_dollar_per_kw,
                                      args.om_escalator_pct, y),
                    !["Generator Fixed O&M Rate"] =
                        EscalatedRate(args.generator_om_fixed_dollar_per_kw,
                                      args.om_escalator_pct, y),
                    !["Generator Variable O&M Rate"] =
                        EscalatedRate(args.generator_om_variable_dollar_per_kwh,
                                      args.om_escalator_pct, y),
                    !["BOS Fixed O&M Rate"] =
                        EscalatedRate(args.bos_om_fixed_dollar_per_kw_load,
                                      args.om_escalator_pct, y),
                    !["Soft O&M Rate"] =
                        EscalatedRate(args.soft_om_pct, args.om_escalator_pct, y)]
            ELSE proforma[y]]
    /\ columns' = columns \cup
                    {"Fuel Unit Cost", "Solar Fixed O&M Rate", "Battery Fixed O&M Rate",
                     "Generator Fixed O&M Rate", "Generator Variable O&M Rate",
                     "BOS Fixed O&M Rate", "Soft O&M Rate"}
    /\ pc' = "costs"
    /\ UNCHANGED <<args, year, index, npv, locals, result, raised>>

\* Lines 236-276: costs, revenue and EBITDA of the operating years.  The code
\* multiplies out and then divides by 1_000_000; the model divides first,
\* which in exact arithmetic is the same number and keeps it in range.
PerMillion(k) == Norm(k, 1000000)

FixedOMCost(row, total_hard_capex) ==
    CAdd(CAdd(CAdd(CAdd(
        CMul(row["Solar Fixed O&M Rate"], Mul(args.solar_pv_capacity_mw, PerMillion(1000))),
        CMul(row["Battery Fixed O&M Rate"], Mul(args.bess_max_power_mw, PerMillion(1000)))),
        CMul(row["Generator Fixed O&M Rate"], Mul(args.generator_capacity_mw, PerMillion(1000)))),
        CMul(row["BOS Fixed O&M Rate"], Mul(args.datacenter_load_mw, PerMillion(1000)))),
        CMul(CDiv(row["Soft O&M Rate"], R(100)), total_hard_capex))

FuelCost(row) ==
    CMul(row["Fuel Unit Cost"], CMul(row["Generator Fuel Input (MMBtu)"], PerMillion(1)))

VariableOMCost(row) ==
    CMul(row["Generator Variable O&M Rate"],
         CMul(row["Generator Output (MWh)"], PerMillion(1000)))

Revenue(row, lcoe) == CDiv(CMul(lcoe, row["Load Served (MWh)"]), R(1000000))

OperatingCosts ==
    /\ pc = "costs"
    /\ proforma' =
         [y \in DOMAIN proforma |->
            IF y \in operating_years(index)
            THEN LET row == proforma[y]
                     fixed == FixedOMCost(row, locals.total_hard_capex)
                     fuel == FuelCost(row)
                     variable == VariableOMCost(row)
                     total == CAdd(CAdd(fuel, fixed), variable)
                     revenue == Revenue(row, args.lcoe_dollar_per_mwh)
                 IN  [row EXCEPT
                        !["Fixed O&M Cost"] = fixed,
                        !["Fuel Cost"] = fuel,
                        !["Variable O&M Cost"] = variable,
                        !["Total Operating Costs"] = total,
                        !["LCOE"] = args.lcoe_dollar_per_mwh,
                        !["Revenue"] = revenue,
                        !["EBITDA"] = CAdd(revenue, total)]
            ELSE proforma[y]]
    /\ columns' = columns \cup
                    {"Fixed O&M Cost", "Fuel Cost", "Variable O&M Cost",
                     "Total Operating Costs", "LCOE", "Revenue", "EBITDA"}
    /\ pc' = "loop"
    /\ year' = 1
    /\ UNCHANGED <<args, index, npv, locals, result, raised>>

\* Lines 279-300: one iteration of the debt, depreciation and taxable income
\* loop, for operating year `year`.
InterestExpense(debt_outstanding, interest_rate) ==
    CMul(CMul(R(-1), debt_outstanding), interest_rate)

\* A debt service that stops once the debt term is over.
DebtService_Stops(payment, y, debt_term_years) ==
    IF y <= debt_term_years THEN Mul(R(-1), payment) ELSE Zero

\* Line 283, inside the loop over every operating year: the fixed payment,
\* whatever the year y and the debt term.
DebtService(payment, y, debt_term_years) == Mul(R(-1), payment)

\* An update that also runs in the last year of the term.
UpdatesDebt_Inclusive(y, debt_term_years) == y <= debt_term_years

\* `if year < debt_term_years`: whether the loop writes next year's opening debt.
UpdatesDebt(y, debt_term_years) == y < debt_term_years

DepreciationSchedule(schedule, y) == IF y <= Len(schedule) THEN schedule[y] ELSE Zero

TaxableIncome(ebitda, depreciation, interest) == CAdd(CAdd(ebitda, depreciation), interest)

DebtTaxLoop ==
    /\ pc = "loop"
    /\ LET opening == proforma[year]["Debt Outstanding, Yr Start"]
           interest == InterestExpense(opening, locals.interest_rate)
           service == DebtService(locals.fixed_debt_payment, year, args.debt_term_years)
           principal == CSub(service, interest)
           schedule == DepreciationSchedule(args.depreciation_schedule, year)
           macrs == Mul(Mul(R(-1), Div(schedule, R(100))),
                        locals.amount_that_is_depreciable)
           thisrow == [proforma[year] EXCEPT
                         !["Interest Expense"] = interest,
                         !["Debt Service"] = service,
                         !["Principal Payment"] = principal,
                         !["Depreciation Schedule"] = schedule,
                         !["Depreciation (MACRS)"] = macrs,
                         !["Taxable Income"] =
                             TaxableIncome(proforma[year]["EBITDA"], macrs, interest),
                         !["Interest Expense (Tax)"] = interest]
           closing == CAdd(opening, principal)
           \* .loc[year + 1, col] = value adds the row when the label is new.
           nextrow == IF year + 1 \in DOMAIN proforma
                      THEN proforma[year + 1] ELSE BlankRow
       IN  IF UpdatesDebt(year, args.debt_term_years)
           THEN /\ proforma' =
                     [y \in DOMAIN proforma \cup {year + 1} |->
                        IF y = year THEN thisrow
                        ELSE IF y = year + 1
                             THEN [nextrow EXCEPT !["Debt Outstanding, Yr Start"] = closing]
                             ELSE proforma[y]]
                /\ index' = IF year + 1 \in Labels(index)
                            THEN index ELSE Append(index, year + 1)
           ELSE /\ proforma' = [proforma EXCEPT ![year] = thisrow]
                /\ index' = index
    /\ columns' = columns \cup
                    {"Interest Expense", "Debt Service", "Principal Payment",
                     "Depreciation Schedule", "Depreciation (MACRS)", "Taxable Income",
                     "Interest Expense (Tax)"}
    /\ IF year < LastYear
       THEN year' = year + 1 /\ pc' = "loop"
       ELSE year' = year /\ pc' = "tax"
    /\ UNCHANGED <<args, npv, locals, result, raised>>

\* Lines 302-311: tax benefit (liability) and after-tax net equity cash flow,
\* over every dated row.
TaxBenefit(taxable_income, tax_rate_pct, federal_itc) ==
    CAdd(CMul(R(-1), CMul(taxable_income, Pct(tax_rate_pct))), fillna0(federal_itc))

\* A cash flow that adds the four cells as they are, a blank one blanking the sum.
AfterTaxCashFlow_NoFill(ebitda, service, benefit, equity) ==
    CAdd(CAdd(CAdd(ebitda, service), benefit), equity)

AfterTaxCashFlow(ebitda, service, benefit, equity) ==
    Add(Add(Add(fillna0(ebitda), fillna0(service)), fillna0(benefit)), fillna0(equity))

Tax ==
    /\ pc = "tax"
    /\ proforma' =
         [y \in DOMAIN proforma |->
            LET row == proforma[y]
                benefit == TaxBenefit(row["Taxable Income"], args.combined_tax_rate_pct,
                                      row["Federal ITC"])
            IN  [row EXCEPT
                   !["Tax Benefit (Liability)"] = benefit,
                   !["After-Tax Net Equity Cash Flow"] =
                       AfterTaxCashFlow(row["EBITDA"], row["Debt Service"], benefit,
                                        row["Equity Capex"])]]
    /\ columns' = columns \cup {"Tax Benefit (Liability)", "After-Tax Net Equity Cash Flow"}
    /\ pc' = "npv"
    /\ UNCHANGED <<args, year, index, npv, locals, result, raised>>

\* Lines 100-113: calculate_npv.  values.fillna(0) / (1 + rate/100) ** (index +
\* construction_time_years), summed over the series idx[lo..hi].
RECURSIVE DiscountedSum(_, _, _, _, _, _)
DiscountedSum(values, idx, lo, hi, discount_rate, shift) ==
    IF lo > hi THEN Zero
    ELSE IF lo = hi
         THEN Div(fillna0(values[idx[lo]]),
                  Pow(Add(One, Pct(discount_rate)), idx[lo] + shift))
         ELSE LET mid == (lo + hi) \div 2
              IN  Add(DiscountedSum(values, idx, lo, mid, discount_rate, shift),
                      DiscountedSum(values, idx, mid + 1, hi, discount_rate, shift))

\* A discounting on the year label alone, without the construction shift.
calculate_npv_NoShift(values, idx, discount_rate, construction_time_years) ==
    DiscountedSum(values, idx, 1, Len(idx), discount_rate, 0)

calculate_npv(values, idx, discount_rate, construction_time_years) ==
    DiscountedSum(values, idx, 1, Len(idx), discount_rate, construction_time_years)

\* Series.sum(): the sum of the cells that are not NaN.
RECURSIVE SeriesSum(_, _, _, _)
SeriesSum(values, idx, lo, hi) ==
    IF lo > hi THEN Zero
    ELSE IF lo = hi THEN fillna0(values[idx[lo]])
         ELSE LET mid == (lo + hi) \div 2
              IN  Add(SeriesSum(values, idx, lo, mid), SeriesSum(values, idx, mid + 1, hi))

Column(tbl, col) == [y \in DOMAIN tbl |-> tbl[y][col]]

\* An 'NPV' row that sums the financial columns without discounting them.
NPVCell_Undiscounted(tbl, idx, col) ==
    IF col \in _CALCULATE_TOTALS
    THEN SeriesSum(Column(tbl, col), idx, 1, Len(idx))
    ELSE IF col \in _EXCLUDE_FROM_NPV
         THEN NaN
         ELSE IF col \notin {"Operating Year"}
              THEN SeriesSum(Column(tbl, col), idx, 1, Len(idx))
              ELSE NaN

\* Lines 313-324: the cell of the 'NPV' row for one column.
NPVCell(tbl, idx, col) ==
    IF col \in _CALCULATE_TOTALS
    THEN SeriesSum(Column(tbl, col), idx, 1, Len(idx))
    ELSE IF col \in _EXCLUDE_FROM_NPV
         THEN NaN
         ELSE IF col \notin {"Operating Year"}
              THEN calculate_npv(Column(tbl, col), idx, args.cost_of_equity_pct,
                                 args.construction_time_years)
              ELSE NaN

NPVRow ==
    /\ pc = "npv"
    /\ npv' = [present |-> TRUE,
               row |-> [c \in AllColumns |->
                          IF c \in columns THEN NPVCell(proforma, index, c) ELSE NaN]]
    /\ pc' = "return"
    /\ UNCHANGED <<args, year, index, columns, proforma, locals, result, raised>>

\* Line 326: DataFrame.round(2), to the nearest hundredth, halves to even.
Round2(c) ==
    IF IsNaN(c) THEN NaN
    ELSE LET a == Abs(c[1])
             d == c[2]
             r0 == a % d
             r1 == (r0 * 10) % d
             r2 == (r1 * 10) % d
             h == (a \div d) * 100 + ((r0 * 10) \div d) * 10 + ((r1 * 10) \div d)
             up == IF 2 * r2 > d THEN 1
                   ELSE IF 2 * r2 = d THEN h % 2 ELSE 0
         IN  Norm((IF c[1] < 0 THEN -1 ELSE 1) * (h + up), 100)

Return ==
    /\ pc = "return"
    /\ result' = [returned |-> TRUE,
                  index |-> index,
                  rows |-> [y \in DOMAIN proforma |->
                              [c \in AllColumns |-> Round2(proforma[y][c])]],
                  npv |-> [c \in AllColumns |-> Round2(npv.row[c])]]
    /\ pc' = "done"
    /\ UNCHANGED <<args, year, index, columns, proforma, npv, locals, raised>>

Next ==
    \/ Scaffold
    \/ Finance
    \/ TaxCredit
    \/ Construction
    \/ OperatingRates
    \/ OperatingCosts
    \/ DebtTaxLoop
    \/ Tax
    \/ NPVRow
    \/ Return

Spec == Init /\ [][Next]_vars

-----------------------------------------------------------------------------
(* Quantities of a call, restated from its arguments for the properties.   *)

HardCapexOf(a) ==
    Add(Add(a.solar_capex, a.bess_capex), Add(a.generator_capex, a.system_integration_capex))
TotalCapexOf(a) == Add(HardCapexOf(a), a.soft_costs_capex)
PrincipalOf(a) == Div(Mul(TotalCapexOf(a), a.leverage_pct), R(100))
RateOf(a) == Div(a.cost_of_debt_pct, R(100))

\* The call returned a table (it did not raise).
Returned == pc = "done" /\ result.returned

-----------------------------------------------------------------------------
\* C1: for every construction_time_years >= 1 and debt_term_years >= 1 the
\* returned table has exactly one dated row per year from
\* -(construction_time_years - 1) through 20, in order, plus the NPV row.
C1_YearRows ==
    result.returned =>
        /\ result.index = [i \in 1..(20 + args.construction_time_years) |->
                              i - args.construction_time_years]
        /\ npv.present

\* C2: the fixed debt payment is P*r*(1+r)^n / ((1+r)^n - 1) for r > 0, and for
\* r = 0 the computation does not fail and yields total_debt / debt_term_years.
C2_DebtPayment ==
    pc \notin {"scaffold", "finance"} =>
        LET r == RateOf(args)
            n == args.debt_term_years
            growth == Pow(Add(One, r), n)
            payment == locals.fixed_debt_payment
        IN  IF r = Zero
            THEN raised = "none" /\ payment = Div(PrincipalOf(args), R(n))
            ELSE /\ ~IsNaN(payment)
                 /\ Mul(payment, Sub(growth, One)) = Mul(Mul(PrincipalOf(args), r), growth)

\* C5: with zero total hard CAPEX the call surfaces the domain error
\* InvalidScenario (no raw division error, no table holding NaN or Inf).
\* Stated for a positive cost of debt, where the payment formula has already
\* gone through and the hard CAPEX division is the one at stake.
C5_InvalidScenario ==
    (pc = "done" /\ HardCapexOf(args) = Zero /\ RateOf(args) # Zero) =>
        raised = "InvalidScenario"

\* Positions of the call: the construction rows are written, the debt loop is
\* over, the tax columns are written.
AfterConstruction == raised = "none" /\ pc \in {"rates", "costs", "loop", "tax", "npv", "return", "done"}
AfterLoop == raised = "none" /\ pc \in {"tax", "npv", "return", "done"}
AfterTax == raised = "none" /\ pc \in {"npv", "return", "done"}

\* The loop has finished its iteration for operating year y.
PastYear(y) == AfterLoop \/ (raised = "none" /\ pc = "loop" /\ year > y)

Cell(y, col) == proforma[y][col]

\* The sum of a column over the years lo..hi (NaN if a cell is blank).
RECURSIVE YearSum(_, _, _)
YearSum(col, lo, hi) ==
    IF lo > hi THEN Zero
    ELSE IF lo = hi THEN Cell(lo, col)
         ELSE LET mid == (lo + hi) \div 2
              IN  CAdd(YearSum(col, lo, mid), YearSum(col, mid + 1, hi))

\* C3: for a term n <= 20 the principal repaid over years 1..n, each year's
\* interest taken on that year's opening Debt Outstanding, sums to the
\* principal, and the balance after the year-n payment is zero.
C3_LoanAmortizes ==
    (PastYear(args.debt_term_years) /\ args.debt_term_years <= 20) =>
        LET n == args.debt_term_years
        IN  /\ CNeg(YearSum("Principal Payment", 1, n)) = PrincipalOf(args)
            /\ CAdd(Cell(n, "Debt Outstanding, Yr Start"), Cell(n, "Principal Payment")) = Zero

C3_Witness ==
    /\ Returned
    /\ args.debt_term_years = 20
    /\ PrincipalOf(args) # Zero
    /\ ~IsNaN(Cell(20, "Principal Payment"))
    /\ Cell(20, "Debt Outstanding, Yr Start") # Cell(1, "Debt Outstanding, Yr Start")

\* C4 as stated: in every construction year Equity Capex + Debt Contribution
\* = Capital Expenditure, the negative equal share of total CAPEX.
C4_EquityPlusDebt ==
    AfterConstruction =>
        \A y \in (1 - args.construction_time_years)..0 :
            /\ Mul(R(args.construction_time_years), Cell(y, "Capital Expenditure"))
                  = Neg(TotalCapexOf(args))
            /\ CAdd(Cell(y, "Equity Capex"), Cell(y, "Debt Contribution"))
                  = Cell(y, "Capital Expenditure")

\* C4 amended: in every construction year Equity Capex - Debt Contribution
\* = Capital Expenditure (Debt Contribution is recorded positive), and
\* Capital Expenditure is the negative equal share of total CAPEX.
C4_EquityMinusDebt ==
    AfterConstruction =>
        \A y \in (1 - args.construction_time_years)..0 :
            /\ Mul(R(args.construction_time_years), Cell(y, "Capital Expenditure"))
                  = Neg(TotalCapexOf(args))
            /\ CSub(Cell(y, "Equity Capex"), Cell(y, "Debt Contribution"))
                  = Cell(y, "Capital Expenditure")

C4_Witness ==
    /\ Returned
    /\ args.construction_time_years = 2
    /\ args.leverage_pct = R(40)
    /\ Cell(-1, "Equity Capex") = R(-3)
    /\ Cell(-1, "Debt Contribution") = R(2)
    /\ Cell(0, "Capital Expenditure") = R(-5)

\* C8: Debt Service is the negative of the same fixed annual payment in every
\* operating year 1..20, the years after the debt term included.
C8_DebtServiceEveryYear ==
    AfterLoop =>
        LET growth == Pow(Add(One, RateOf(args)), args.debt_term_years)
        IN  \A y \in 1..20 :
              /\ ~IsNaN(Cell(y, "Debt Service"))
              /\ Cell(y, "Debt Service") = Cell(1, "Debt Service")
              /\ Mul(Cell(y, "Debt Service"), Sub(growth, One))
                    = Neg(Mul(Mul(PrincipalOf(args), RateOf(args)), growth))
              /\ result.returned =>
                    result.rows[y]["Debt Service"] = Round2(Neg(locals.fixed_debt_payment))

C8_Witness ==
    /\ Returned
    /\ args.debt_term_years = 2
    /\ PrincipalOf(args) # Zero
    /\ Cell(20, "Debt Service") = Neg(locals.fixed_debt_payment)
    /\ Cell(20, "Debt Service") # Zero

\* C9: Debt Outstanding at the start of year 1 is total debt; for every
\* operating year y < debt_term_years the opening balance of year y+1 is that
\* of year y plus the (negative) Principal Payment of year y; for
\* y >= debt_term_years no opening balance is written for year y+1.
C9_DebtOutstanding ==
    AfterLoop =>
        /\ Cell(1, "Debt Outstanding, Yr Start") = PrincipalOf(args)
        /\ \A y \in 1..20 :
              IF y < args.debt_term_years
              THEN /\ y + 1 \in DOMAIN proforma
                   /\ ~IsNaN(Cell(y + 1, "Debt Outstanding, Yr Start"))
                   /\ Cell(y + 1, "Debt Outstanding, Yr Start")
                         = CAdd(Cell(y, "Debt Outstanding, Yr Start"),
                                Cell(y, "Principal Payment"))
                   /\ Cell(y, "Principal Payment")
                         = CSub(Cell(y, "Debt Service"), Cell(y, "Interest Expense"))
              ELSE y + 1 \in DOMAIN proforma =>
                       IsNaN(Cell(y + 1, "Debt Outstanding, Yr Start"))

C9_Witness ==
    /\ Returned
    /\ args.debt_term_years = 2
    /\ PrincipalOf(args) # Zero
    /\ ~IsNaN(Cell(2, "Debt Outstanding, Yr Start"))
    /\ Cell(2, "Debt Outstanding, Yr Start") # Cell(1, "Debt Outstanding, Yr Start")
    /\ IsNaN(Cell(3, "Debt Outstanding, Yr Start"))

DiscountFactor == Add(One, Div(args.cost_of_equity_pct, R(100)))

\* The value of the entries idx[lo..hi] of a column at the year of idx[lo]:
\* each later block is discounted back by the years between the two blocks.
RECURSIVE ValueAt(_, _, _)
ValueAt(col, lo, hi) ==
    IF lo = hi THEN fillna0(Cell(index[lo], col))
    ELSE LET mid == (lo + hi) \div 2
         IN  Add(ValueAt(col, lo, mid),
                 Div(ValueAt(col, mid + 1, hi),
                     Pow(DiscountFactor, index[mid + 1] - index[lo])))

\* The columns of the NPV row that are discounted.
DiscountedColumns == columns \ (_CALCULATE_TOTALS \cup _EXCLUDE_FROM_NPV \cup {"Operating Year"})

\* C6: calculate_npv of a series is the sum over its entries of
\* value / (1 + rate_pct/100)^(t + construction_shift), a missing value
\* counting as zero; a single value x at year t gives
\* x / (1 + rate/100)^(t + shift), and year -1 with shift 2 is discounted at
\* exponent 1.
C6_NPVDiscounting ==
    npv.present =>
        /\ \A col \in DiscountedColumns :
              npv.row[col] =
                 Div(ValueAt(col, 1, Len(index)),
                     Pow(DiscountFactor, index[1] + args.construction_time_years))
        /\ Mul(npv.row["Federal ITC"],
               Pow(DiscountFactor, 1 + args.construction_time_years))
              = Cell(1, "Federal ITC")
        /\ args.construction_time_years = 2 =>
              npv.row["Capital Expenditure"] =
                 Add(Div(Cell(-1, "Capital Expenditure"), DiscountFactor),
                     Div(Cell(0, "Capital Expenditure"), Mul(DiscountFactor, DiscountFactor)))

C6_Witness ==
    /\ Returned
    /\ args.cost_of_equity_pct = R(100)
    /\ args.construction_time_years = 2
    /\ Cell(1, "Federal ITC") = R(4)
    /\ npv.row["Federal ITC"] = Norm(1, 2)
    /\ npv.row["Capital Expenditure"] = Norm(-15, 4)

\* C7 as stated: every column of the NPV row is in exactly one of three
\* cases: an energy total (_CALCULATE_TOTALS) holding the undiscounted sum of
\* the dated rows, a column of _EXCLUDE_FROM_NPV left absent, or any other
\* column, holding calculate_npv of its dated values at the cost of equity
\* with shift construction_time_years.
C7_ThreeCases ==
    npv.present =>
        /\ _CALCULATE_TOTALS \cap _EXCLUDE_FROM_NPV = {}
        /\ \A col \in columns :
              \/ /\ col \in _CALCULATE_TOTALS
                 /\ npv.row[col] = SeriesSum(Column(proforma, col), index, 1, Len(index))
              \/ /\ col \in _EXCLUDE_FROM_NPV
                 /\ IsNaN(npv.row[col])
              \/ /\ col \notin _CALCULATE_TOTALS \cup _EXCLUDE_FROM_NPV
                 /\ npv.row[col] =
                       calculate_npv(Column(proforma, col), index, args.cost_of_equity_pct,
                                     args.construction_time_years)

\* C7 amended: the same three cases for every column but 'Operating Year',
\* which is in neither list and is left absent in the NPV row.
C7_CasesOfNPVRow ==
    npv.present =>
        /\ _CALCULATE_TOTALS \cap _EXCLUDE_FROM_NPV = {}
        /\ "Operating Year" \in columns \ (_CALCULATE_TOTALS \cup _EXCLUDE_FROM_NPV)
        /\ IsNaN(npv.row["Operating Year"])
        /\ \A col \in columns \ {"Operating Year"} :
              \/ /\ col \in _CALCULATE_TOTALS
                 /\ npv.row[col] = SeriesSum(Column(proforma, col), index, 1, Len(index))
              \/ /\ col \in _EXCLUDE_FROM_NPV
                 /\ IsNaN(npv.row[col])
              \/ /\ col \notin _CALCULATE_TOTALS \cup _EXCLUDE_FROM_NPV
                 /\ npv.row[col] =
                       calculate_npv(Column(proforma, col), index, args.cost_of_equity_pct,
                                     args.construction_time_years)

C7_Witness ==
    /\ Returned
    /\ args.cost_of_equity_pct = R(100)
    /\ columns = AllColumns
    /\ npv.row["Load Served (MWh)"] = R(1600000)
    /\ IsNaN(npv.row["LCOE"])
    /\ IsNaN(npv.row["Operating Year"])
    /\ ~IsNaN(npv.row["EBITDA"])
    /\ npv.row["EBITDA"] # YearSum("EBITDA", 1, 20)

\* The unit rate columns, each with its base rate and its escalator.
UnitRates ==
    { <<"Fuel Unit Cost", args.fuel_price_dollar_per_mmbtu, args.fuel_escalator_pct>>,
      <<"Solar Fixed O&M Rate", args.solar_om_fixed_dollar_per_kw, args.om_escalator_pct>>,
      <<"Battery Fixed O&M Rate", args.bess_om_fixed_dollar_per_kw, args.om_escalator_pct>>,
      <<"Generator Fixed O&M Rate", args.generator_om_fixed_dollar_per_kw,
        args.om_escalator_pct>>,
      <<"Generator Variable O&M Rate", args.generator_om_variable_dollar_per_kwh,
        args.om_escalator_pct>>,
      <<"BOS Fixed O&M Rate", args.bos_om_fixed_dollar_per_kw_load, args.om_escalator_pct>>,
      <<"Soft O&M Rate", args.soft_om_pct, args.om_escalator_pct>> }

\* The unit rates are written.
AfterRates == raised = "none" /\ pc \in {"costs", "loop", "tax", "npv", "return", "done"}

\* p < q for two rationals.
Less(p, q) == p[1] * q[2] < q[1] * p[2]

\* C11 as stated: for every escalated unit rate written to the table and
\* every pair of successive operating years y, y+1 in 1..20, with a positive
\* escalator and a positive base rate the year y+1 rate strictly exceeds the
\* year y rate, and with escalator 0 the two are equal.
C11_RatesIncrease ==
    AfterRates =>
        \A u \in UnitRates : \A y \in 1..19 :
            /\ (Less(Zero, u[3]) /\ Less(Zero, u[2])) =>
                   Less(Cell(y, u[1]), Cell(y + 1, u[1]))
            /\ u[3] = Zero => Cell(y + 1, u[1]) = Cell(y, u[1])

\* C11 amended: the rates are written as negative numbers, -base * (1 +
\* escalator/100)^(y-1); with a positive escalator and a positive base rate
\* the year y+1 rate is the year y rate times (1 + escalator/100), so it is
\* strictly below the year y rate (strictly larger in magnitude), and with
\* escalator 0 the two are equal.
C11_RatesGrowInMagnitude ==
    AfterRates =>
        \A u \in UnitRates : \A y \in 1..19 :
            /\ Cell(1, u[1]) = Neg(u[2])
            /\ (Less(Zero, u[3]) /\ Less(Zero, u[2])) =>
                   /\ Less(Cell(y + 1, u[1]), Cell(y, u[1]))
                   /\ Less(Cell(y + 1, u[1]), Zero)
                   /\ Cell(y + 1, u[1]) = Mul(Cell(y, u[1]), Add(One, Pct(u[3])))
            /\ u[3] = Zero => Cell(y + 1, u[1]) = Cell(y, u[1])

C11_Witness ==
    /\ Returned
    /\ args.om_escalator_pct = R(100)
    /\ args.fuel_escalator_pct = Zero
    /\ Cell(1, "Solar Fixed O&M Rate") = R(-10)
    /\ Cell(2, "Solar Fixed O&M Rate") = R(-20)
    /\ Cell(20, "Generator Variable O&M Rate") = Norm(-65536, 5)
    /\ Cell(20, "Fuel Unit Cost") = R(-5)

\* C13: for every operating year 1..20 that has a simulation row, and for
\* every debt_term_years >= 1 (terms shorter than 20 included), Taxable
\* Income is the number EBITDA + Depreciation (MACRS) + Interest Expense, with
\* Interest Expense = -(Debt Outstanding at year start) * interest rate, and
\* Tax Benefit (Liability) is the number -(Taxable Income * combined tax
\* rate / 100) + the year's ITC.
C13_TaxableIncome ==
    AfterTax =>
        \A y \in 1..20 :
            y \in DOMAIN args.simulation_data =>
                /\ Cell(y, "Interest Expense")
                      = CNeg(CMul(Cell(y, "Debt Outstanding, Yr Start"), RateOf(args)))
                /\ Cell(y, "Taxable Income")
                      = CAdd(CAdd(Cell(y, "EBITDA"), Cell(y, "Depreciation (MACRS)")),
                             Cell(y, "Interest Expense"))
                /\ Cell(y, "Tax Benefit (Liability)")
                      = CAdd(CNeg(CDiv(CMul(Cell(y, "Taxable Income"),
                                            args.combined_tax_rate_pct), R(100))),
                             fillna0(Cell(y, "Federal ITC")))
                /\ ~IsNaN(Cell(y, "Taxable Income"))
                /\ ~IsNaN(Cell(y, "Tax Benefit (Liability)"))

\* The construction years of the call, counted back from year 0.
ConstructionYearsOf(a) == (1 - a.construction_time_years)..0

\* C14: in every dated row (construction and operating years) After-Tax Net
\* Equity Cash Flow = EBITDA + Debt Service + Tax Benefit (Liability) + Equity
\* Capex, each term that is blank in that row counted as zero; hence in a
\* construction year it equals that year's Equity Capex.
C14_AfterTaxCashFlow ==
    AfterTax =>
        \A y \in DOMAIN proforma :
            /\ ~IsNaN(Cell(y, "After-Tax Net Equity Cash Flow"))
            /\ Cell(y, "After-Tax Net Equity Cash Flow")
                  = Add(Add(fillna0(Cell(y, "EBITDA")), fillna0(Cell(y, "Debt Service"))),
                        Add(fillna0(Cell(y, "Tax Benefit (Liability)")),
                            fillna0(Cell(y, "Equity Capex"))))
            /\ y \in ConstructionYearsOf(args) =>
                  /\ ~IsNaN(Cell(y, "Equity Capex"))
                  /\ Cell(y, "After-Tax Net Equity Cash Flow") = Cell(y, "Equity Capex")
            /\ result.returned =>
                  result.rows[y]["After-Tax Net Equity Cash Flow"]
                     = Round2(Cell(y, "After-Tax Net Equity Cash Flow"))

C14_Witness ==
    /\ Returned
    /\ args.construction_time_years = 2
    /\ args.leverage_pct = R(40)
    /\ args.debt_term_years = 2
    /\ 1 \in DOMAIN args.simulation_data
    /\ Cell(-1, "After-Tax Net Equity Cash Flow") = R(-3)
    /\ ~IsNaN(Cell(1, "Tax Benefit (Liability)"))
    /\ Cell(1, "After-Tax Net Equity Cash Flow")
          = Add(Add(Cell(1, "EBITDA"), Cell(1, "Debt Service")),
                Cell(1, "Tax Benefit (Liability)"))
    /\ Cell(1, "After-Tax Net Equity Cash Flow") # Cell(1, "EBITDA")
    /\ IsNaN(Cell(5, "Tax Benefit (Liability)"))
    /\ Cell(5, "After-Tax Net Equity Cash Flow")
          = Add(Cell(5, "EBITDA"), Cell(5, "Debt Service"))

-----------------------------------------------------------------------------
(* calculate_capex (lines 31-98): a pure function of its `inputs` mapping.  *)
(* Under SpecCapex `args` holds that mapping and `result` the returned one. *)

_BESS_HRS_STORAGE == 4

\* Capacities in MW range over the multiples of 5 MW up to
\* MaxCapacitySteps of them.
MaxCapacitySteps == 2
Capacities == {5 * k : k \in 0..MaxCapacitySteps}

\* Unit costs: pv in $/W, bess in $/kWh, generator and integration in $/kW.
UnitCosts ==
    { [ pv_modules |-> Zero, pv_inverters |-> Zero, pv_racking |-> Zero,
        pv_balance_system |-> Zero, pv_labor |-> Zero,
        bess_units |-> Zero, bess_balance_of_system |-> Zero, bess_labor |-> Zero,
        gensets |-> Zero, gen_balance_of_system |-> Zero, gen_labor |-> Zero,
        si_microgrid |-> Zero, si_controls |-> Zero, si_labor |-> Zero ],
      [ pv_modules |-> Norm(1, 4), pv_inverters |-> Norm(1, 20), pv_racking |-> Norm(1, 5),
        pv_balance_system |-> Norm(3, 20), pv_labor |-> Norm(1, 5),
        bess_units |-> R(200), bess_balance_of_system |-> R(40), bess_labor |-> R(20),
        gensets |-> R(800), gen_balance_of_system |-> R(200), gen_labor |-> R(150),
        si_microgrid |-> R(300), si_controls |-> R(50), si_labor |-> R(60) ] }

\* The seven soft-cost percentages.
SoftCostPcts ==
    { [ soft_costs_general_conditions |-> Zero, soft_costs_epc_overhead |-> Zero,
        soft_costs_design_engineering |-> Zero, soft_costs_permitting |-> Zero,
        soft_costs_startup |-> Zero, soft_costs_insurance |-> Zero,
        soft_costs_taxes |-> Zero ],
      [ soft_costs_general_conditions |-> Norm(1, 2), soft_costs_epc_overhead |-> R(5),
        soft_costs_design_engineering |-> Norm(1, 2), soft_costs_permitting |-> Norm(1, 20),
        soft_costs_startup |-> Norm(1, 4), soft_costs_insurance |-> Norm(1, 2),
        soft_costs_taxes |-> R(1) ] }

\* The `inputs` mappings of calculate_capex: the four capacities, the unit
\* costs and the soft-cost percentages under their keys.
CapexInputs ==
    { LET caps == [ solar_pv_capacity_mw |-> R(pv), bess_max_power_mw |-> R(bs),
                    generator_capacity_mw |-> R(gn), datacenter_load_mw |-> R(ld) ]
      IN  [ k \in DOMAIN caps \cup DOMAIN u \cup DOMAIN sp |->
              IF k \in DOMAIN caps THEN caps[k]
              ELSE IF k \in DOMAIN u THEN u[k] ELSE sp[k] ] :
      pv \in Capacities, bs \in Capacities, gn \in Capacities, ld \in Capacities,
      u \in UnitCosts, sp \in SoftCostPcts }

\* Lines 42-48, in dollars.
solar_capex(inputs) ==
    Mul(Mul(inputs.solar_pv_capacity_mw, R(1000000)),
        Add(Add(Add(Add(inputs.pv_modules, inputs.pv_inverters),
                    inputs.pv_racking), inputs.pv_balance_system),
            inputs.pv_labor))

\* Lines 51-56.
bess_system_mwh(inputs) == Mul(inputs.bess_max_power_mw, R(_BESS_HRS_STORAGE))

bess_capex(inputs) ==
    Mul(Mul(bess_system_mwh(inputs), R(1000)),
        Add(Add(inputs.bess_units, inputs.bess_balance_of_system),
            inputs.bess_labor))

\* Lines 59-63.
generator_capex(inputs) ==
    Mul(Mul(inputs.generator_capacity_mw, R(1000)),
        Add(Add(inputs.gensets, inputs.gen_balance_of_system),
            inputs.gen_labor))

\* Lines 66-70.
system_integration_capex(inputs) ==
    Mul(Mul(inputs.datacenter_load_mw, R(1000)),
        Add(Add(inputs.si_microgrid, inputs.si_controls),
            inputs.si_labor))

\* Lines 73-78.
total_hard_costs(inputs) ==
    Add(Add(Add(solar_capex(inputs), bess_capex(inputs)), generator_capex(inputs)),
        system_integration_capex(inputs))

\* The sum of the seven soft-cost percentages, in the order of lines 82-88.
soft_costs_pct(inputs) ==
    Add(Add(Add(Add(Add(Add(inputs.soft_costs_general_conditions,
                            inputs.soft_costs_epc_overhead),
                        inputs.soft_costs_design_engineering),
                    inputs.soft_costs_permitting),
                inputs.soft_costs_startup),
            inputs.soft_costs_insurance),
        inputs.soft_costs_taxes)

\* Soft costs that take the percentages as fractions.
soft_costs_AsFraction(inputs) == Mul(total_hard_costs(inputs), soft_costs_pct(inputs))

\* Lines 81-89.
soft_costs(inputs) ==
    Div(Mul(total_hard_costs(inputs), soft_costs_pct(inputs)), R(100))

\* Lines 92-98: the returned mapping, in $M.
calculate_capex(inputs) ==
    [ solar |-> Div(solar_capex(inputs), R(1000000)),
      bess |-> Div(bess_capex(inputs), R(1000000)),
      generator |-> Div(generator_capex(inputs), R(1000000)),
      system_integration |-> Div(system_integration_capex(inputs), R(1000000)),
      soft_costs |-> Div(soft_costs(inputs), R(1000000)) ]

InitCapex ==
    /\ args \in CapexInputs
    /\ pc = "capex"
    /\ year = 0
    /\ index = <<>>
    /\ columns = {}
    /\ proforma = <<>>
    /\ npv = [present |-> FALSE, row |-> BlankRow]
    /\ locals = NoLocals
    /\ result = <<>>
    /\ raised = "none"

CalculateCapex ==
    /\ pc = "capex"
    /\ result' = calculate_capex(args)
    /\ pc' = "done"
    /\ UNCHANGED <<args, year, index, columns, proforma, npv, locals, raised>>

NextCapex == CalculateCapex

SpecCapex == InitCapex /\ [][NextCapex]_vars

\* C12: for all non-negative inputs calculate_capex returns five components
\* in millions (each the raw dollar figure / 1,000,000) such that
\* soft_costs == (solar + bess + generator + system_integration) * (sum of the
\* seven soft-cost percentages) / 100, the hard-cost subtotal being the sum
\* of the four hard components returned.
C12_CapexComponents ==
    (pc = "done" /\ raised = "none") =>
        LET hard == Add(Add(result.solar, result.bess),
                        Add(result.generator, result.system_integration))
            u == args
        IN  /\ DOMAIN result = {"solar", "bess", "generator", "system_integration",
                                "soft_costs"}
            /\ Mul(result.soft_costs, R(100)) = Mul(hard, soft_costs_pct(args))
            /\ Mul(hard, R(1000000)) = total_hard_costs(args)
            /\ result.solar =
                  Mul(args.solar_pv_capacity_mw,
                      Add(Add(u.pv_modules, u.pv_inverters),
                          Add(Add(u.pv_racking, u.pv_balance_system), u.pv_labor)))
            /\ Mul(result.bess, R(1000)) =
                  Mul(Mul(args.bess_max_power_mw, R(4)),
                      Add(u.bess_units, Add(u.bess_balance_of_system, u.bess_labor)))
            /\ Mul(result.generator, R(1000)) =
                  Mul(args.generator_capacity_mw,
                      Add(u.gensets, Add(u.gen_balance_of_system, u.gen_labor)))
            /\ Mul(result.system_integration, R(1000)) =
                  Mul(args.datacenter_load_mw,
                      Add(u.si_microgrid, Add(u.si_controls, u.si_labor)))
            /\ \A k \in DOMAIN result : ~Less(result[k], Zero)

C12_Witness ==
    /\ pc = "done"
    /\ args.solar_pv_capacity_mw = R(10)
    /\ args.bess_max_power_mw = R(5)
    /\ args.generator_capacity_mw = R(10)
    /\ args.datacenter_load_mw = R(5)
    /\ soft_costs_pct(args) = Norm(39, 5)
    /\ result.solar = Norm(17, 2)
    /\ result.bess = Norm(26, 5)
    /\ result.generator = Norm(23, 2)
    /\ result.system_integration = Norm(41, 20)
    /\ result.soft_costs = Norm(4251, 2000)

====
